---- MODULE Spec2Model ----
(***************************************************************************)
(* A model of gst-transcoder: the profile helpers of tools/utils.c and     *)
(* tools/gst-transcoder.c (get_usable_profiles, get_profiles_of_type), the *)
(* command-line caller (main and its callbacks), and the transcoding       *)
(* engine and signal dispatcher the caller drives.                         *)
(***************************************************************************)
EXTENDS Integers, Sequences, FiniteSets, TLC

\* ------------------------------------------------------------ bounds

\* Profiles of the target handed to get_usable_profiles (candidates, children
\* and grandchildren together).
MaxProfiles == 3
\* Profiles of the tree handed to get_profiles_of_type.
MaxKindProfiles == 5
\* Largest presence a deserialized profile carries before normalisation.
MaxPresence == 2

\* ------------------------------------------------------------ state

VARIABLES
    \* the profile heap: GstEncodingProfile objects named by their index
    nprofiles,        \* how many profiles exist (1..nprofiles)
    ptype,            \* G_OBJECT_TYPE of each profile
    parent,           \* the container owning a profile, 0 for a top-level one
    presence,         \* gst_encoding_profile_get_presence
    avail,            \* profiles whose own muxer/encoder is installed
    usable_profiles,  \* the list get_usable_profiles returned
    profiles,         \* the list get_profiles_of_type returned
    of_profile,       \* its arguments, 0 before the first call
    of_type,
    restriction,      \* gst_encoding_profile_get_restriction
    mprofile,         \* main's profile, 0 before create_encoding_profile
    size,             \* main's size after option parsing
    rate,             \* main's rate after option parsing
    ppc               \* position of the profile caller

VARIABLES
    \* the caller
    caller,           \* "cli": main of gst-transcoder.c, "cli_old": the older
                      \* main, "api": a library client using run_async
    opt_cpu,          \* main's cpu_usage after option parsing
    mpc,              \* position of the caller
    out,              \* the lines main and its callbacks have printed
    res,              \* main's return value
    run_err,          \* main's err after gst_transcoder_run
    \* the engine
    state, graph, mode, cpu_usage, cfg_result,
    bg,               \* the background execution context is alive
    bg_busy,          \* its position timer has sampled and not yet dispatched
    quit,             \* destruction has begun
    destroyed,        \* destruction has returned
    last_error, position, duration,
    nstreams, encodable, reported,
    \* the dispatcher
    disp,             \* "immediate" or "loop"
    ctx_alive,        \* the target execution context of a loop dispatcher
    queue,            \* the events enqueued on it, oldest first
    inflight,         \* the event whose thunk ran and whose cleanup has not
    ev,               \* every event handed to dispatch, in order
    thunk_runs, cleanup_runs,
    lost,             \* events dispatched on a torn-down context
    dropped,          \* events still enqueued when the context was torn down
    delivered         \* the events the caller observed, in order

cvars == <<caller, opt_cpu, mpc, out, res, run_err>>

evars == <<state, graph, mode, cpu_usage, cfg_result, bg,
           bg_busy, quit, destroyed, last_error, position, duration,
           nstreams, encodable, reported>>

dvars == <<disp, ctx_alive, queue, inflight, ev, thunk_runs, cleanup_runs,
           lost, dropped, delivered>>

pvars == <<nprofiles, ptype, parent, presence, avail, usable_profiles,
           profiles, of_profile, of_type, restriction, mprofile, size, rate,
           ppc>>

vars == <<pvars, cvars, evars, dvars>>

\* ------------------------------------------------------------ profiles

ProfileTypes == {"container", "video", "audio"}

\* The types the callers of get_profiles_of_type ask for (lines 130 and 157).
StreamTypes == {"video", "audio"}

Ids == 1..nprofiles

\* The sequence of the members of a finite set of integers, ascending.
RECURSIVE SortedSeq(_)
SortedSeq(S) ==
    IF S = {} THEN <<>>
    ELSE LET m == CHOOSE x \in S : \A y \in S : x <= y
         IN <<m>> \o SortedSeq(S \ {m})

\* gst_encoding_container_profile_get_profiles: the ordered children.
ChildrenOf(c) == SortedSeq({i \in Ids : parent[i] = c})

\* gst_encoding_target_get_profiles: the target's ordered candidates.
TargetProfiles == SortedSeq({i \in Ids : parent[i] = 0})

RECURSIVE Descendants(_)
Descendants(c) ==
    LET kids == {i \in Ids : parent[i] = c}
    IN kids \cup UNION {Descendants(k) : k \in kids}

\* g_list_append, which a list kept in order would use
Append_(list, x) == list \o <<x>>

\* g_list_prepend
Prepend(list, x) == <<x>> \o list

Range(s) == {s[i] : i \in 1..Len(s)}

Reverse(s) == [i \in 1..Len(s) |-> s[Len(s) + 1 - i]]

\* The ownership maps over n profiles: a profile is owned by none (0) or by a
\* profile created before it.
RECURSIVE ParentMaps(_)
ParentMaps(n) ==
    IF n = 0 THEN {<<>>}
    ELSE {Append(f, q) : f \in ParentMaps(n - 1), q \in 0..(n - 1)}

\* The profile trees a caller can hold: an acyclic ownership forest in which
\* only containers own children, at most two levels below a candidate.
WellFormed(n, ty, par) ==
    \A i \in 1..n :
        /\ par[i] # 0 => /\ ty[par[i]] = "container"
                         /\ par[par[i]] # 0 => par[par[par[i]]] = 0

\* ---- the trial build (encodebin with its "profile" property set)

\* The stages encodebin holds after it is given profile p alone: nothing when
\* p's own muxer or encoder is missing; a leaf's encoder; a container's muxer
\* and the stages of every child with a non-zero presence (a child of
\* presence 0 is built on request only), all torn down when one of them
\* cannot be built.
RECURSIVE TrialStages(_, _)
TrialStages(p, pres) ==
    IF p \notin avail THEN {}
    ELSE IF ptype[p] # "container" THEN {p}
    ELSE LET kids == {k \in Ids : parent[k] = p /\ pres[k] # 0}
         IN IF \E k \in kids : TrialStages(k, pres) = {} THEN {}
            ELSE {p} \cup UNION {TrialStages(k, pres) : k \in kids}

\* ---- get_usable_profiles (tools/utils.c)

\* lines 115-123: presence 1 on the profile and on each of its sub-profiles
SetPresence(profile, pres) ==
    [i \in DOMAIN pres |->
        IF i = profile THEN 1
        ELSE IF ptype[profile] = "container" /\ parent[i] = profile THEN 1
        ELSE pres[i]]

\* The loop without the test of line 130: every candidate is listed.
RECURSIVE UsableLoopNoTest(_, _, _)
UsableLoopNoTest(tmpprof, pres, usable) ==
    IF tmpprof = <<>> THEN <<pres, usable>>
    ELSE UsableLoopNoTest(Tail(tmpprof), SetPresence(Head(tmpprof), pres),
            Prepend(usable, Head(tmpprof)))

\* The loop of lines 110-134 over the rest tmpprof of the target's list; the
\* result is the pair of the presence map and the list built so far.
RECURSIVE UsableLoop(_, _, _)
UsableLoop(tmpprof, pres, usable) ==
    IF tmpprof = <<>> THEN <<pres, usable>>
    ELSE LET profile == Head(tmpprof)
             pres1 == SetPresence(profile, pres)
         IN UsableLoop(Tail(tmpprof), pres1,
                IF TrialStages(profile, pres1) # {}
                THEN Prepend(usable, profile)
                ELSE usable)

get_usable_profiles ==
    /\ ppc = "target"
    /\ LET r == UsableLoop(TargetProfiles, presence, <<>>)
       IN /\ presence' = r[1]
          /\ usable_profiles' = r[2]
    /\ ppc' = "listed"
    /\ UNCHANGED <<nprofiles, ptype, parent, avail, profiles, of_profile, of_type,
                   restriction, mprofile, size, rate, cvars, evars, dvars>>

\* ---- get_profiles_of_type (tools/gst-transcoder.c)

RECURSIVE OfTypeLoop(_, _, _)
OfTypeLoop(tmp, profile_type, list) ==
    IF tmp = <<>> THEN list
    ELSE OfTypeLoop(Tail(tmp), profile_type,
            IF ptype[Head(tmp)] = profile_type
            THEN Prepend(list, Head(tmp))
            ELSE list)

ProfilesOfType(profile, profile_type) ==
    IF ptype[profile] = "container"
    THEN OfTypeLoop(ChildrenOf(profile), profile_type, <<>>)
    ELSE IF ptype[profile] = "video" THEN Prepend(<<>>, profile)
    ELSE <<>>

get_profiles_of_type ==
    /\ ppc = "tree"
    /\ \E profile \in Ids, profile_type \in StreamTypes :
        /\ profiles' = ProfilesOfType(profile, profile_type)
        /\ of_profile' = profile
        /\ of_type' = profile_type
    /\ ppc' = "selected"
    /\ UNCHANGED <<nprofiles, ptype, parent, presence, avail, usable_profiles,
                   restriction, mprofile, size, rate, cvars, evars, dvars>>

\* ------------------------------------------------------------ overrides

\* Profiles of the tree create_encoding_profile hands to the overrides.
MaxOverrideProfiles == 4

\* A string is the sequence of its characters; NoValue is the NULL string.
NoValue == <<"(null)">>

\* A NULL restriction.
NoCaps == [media |-> "NULL", fields |-> {}]

gst_caps_new_empty_simple(media) == [media |-> media, fields |-> {}]

\* gst_caps_set_simple: each named field is set, replacing a value it had.
gst_caps_set_simple(caps, new) ==
    [caps EXCEPT !.fields =
        {f \in @ : \A g \in new : f[1] # g[1]} \cup new]

\* ---- the parsing of --size (lines 110-127)

g_ascii_tolower(c) ==
    IF c = "X" THEN "x" ELSE IF c = "A" THEN "a" ELSE c

Lowered(value) == [i \in 1..Len(value) |-> g_ascii_tolower(value[i])]

\* The pieces of a non-empty string between its "x" delimiters, cur being
\* the piece read so far.
RECURSIVE Pieces(_, _)
Pieces(s, cur) ==
    IF s = <<>> THEN <<cur>>
    ELSE IF Head(s) = "x" THEN <<cur>> \o Pieces(Tail(s), <<>>)
    ELSE Pieces(Tail(s), Append(cur, Head(s)))

\* g_strsplit (string, "x", -1): the empty string splits into an empty
\* vector, any other string into one piece more than it has delimiters.
g_strsplit(s) == IF s = <<>> THEN <<>> ELSE Pieces(s, <<>>)

\* The value of a character as a digit, 36 for a character that is none.
DigitOf(c) ==
    CASE c = "0" -> 0
      [] c = "1" -> 1
      [] c = "2" -> 2
      [] c = "a" -> 10
      [] OTHER -> 36

RECURSIVE Accumulate(_, _, _)
Accumulate(s, base, acc) ==
    IF s = <<>> \/ DigitOf(Head(s)) >= base THEN acc
    ELSE Accumulate(Tail(s), base, acc * base + DigitOf(Head(s)))

\* g_ascii_strtoull: the longest prefix of digits of the base, 0 when there
\* is none; base 0 reads a leading "0" as the mark of an octal number.
g_ascii_strtoull(nptr, base) ==
    IF base # 0 THEN Accumulate(nptr, base, 0)
    ELSE IF nptr # <<>> /\ Head(nptr) = "0" THEN Accumulate(Tail(nptr), 8, 0)
    ELSE Accumulate(nptr, 10, 0)

\* ---- set_video_size and set_audio_rate (tools/gst-transcoder.c)

\* The loops of lines 131-143 and 158-168 over the rest tmp of the list:
\* each profile's restriction (a new caps of the media type when it has
\* none, a copy of it otherwise) is given the fields new.
RECURSIVE SetRestrictions(_, _, _, _)
SetRestrictions(tmp, rest, media, new) ==
    IF tmp = <<>> THEN rest
    ELSE LET p == Head(tmp)
             caps == IF rest[p] = NoCaps
                     THEN gst_caps_new_empty_simple(media)
                     ELSE rest[p]
         IN SetRestrictions(Tail(tmp),
                [rest EXCEPT ![p] = gst_caps_set_simple(caps, new)],
                media, new)

\* lines 107-108, 153-154: nothing asked
NoOverride ==
    UNCHANGED <<restriction, profiles, of_profile, of_type, out>>

\* lines 118-123: the error is printed and FALSE returned, which main ignores
SizeRejected ==
    /\ out' = Append(out, <<"error", "video_size_form">>)
    /\ UNCHANGED <<restriction, profiles, of_profile, of_type>>

\* lines 129-143
SizeApplied(width, height) ==
    LET video_profiles == ProfilesOfType(mprofile, "video")
    IN /\ profiles' = video_profiles
       /\ of_profile' = mprofile
       /\ of_type' = "video"
       /\ restriction' = SetRestrictions(video_profiles, restriction,
                            "video/x-raw",
                            {<<"width", width>>, <<"height", height>>})
       /\ UNCHANGED out

\* What strtoull can read at the address an uninitialised vsize[1] holds.
GarbageHeights == {0, 1}

\* set_video_size (profile, size), line 299.  The vector of an empty size
\* holds its terminator only: line 118 reads vsize[1] and vsize[2] beyond it.
\* Whatever is there, the size is rejected (vsize[1] reads as NULL, or
\* vsize[2] as non-NULL) or accepted with the width of a NULL vsize[0], 0,
\* and the height of the bytes vsize[1] points to, or the read of them faults.
set_video_size ==
    /\ ppc = "created"
    /\ IF size = NoValue THEN NoOverride /\ ppc' = "sized"
       ELSE LET vsize == g_strsplit(Lowered(size))
            IN IF vsize = <<>>
               THEN \/ SizeRejected /\ ppc' = "sized"
                    \/ \E height \in GarbageHeights :
                        SizeApplied(0, height) /\ ppc' = "sized"
                    \/ NoOverride /\ ppc' = "crashed"
               ELSE IF Len(vsize) # 2 THEN SizeRejected /\ ppc' = "sized"
               ELSE /\ SizeApplied(g_ascii_strtoull(vsize[1], 0),
                                   g_ascii_strtoull(vsize[2], 10))
                    /\ ppc' = "sized"
    /\ UNCHANGED <<nprofiles, ptype, parent, presence, avail, usable_profiles,
                   mprofile, size, rate, caller, opt_cpu, mpc, res, run_err,
                   evars, dvars>>

\* set_audio_rate (profile, rate), line 300
set_audio_rate ==
    /\ ppc = "sized"
    /\ IF rate < 0 THEN NoOverride
       ELSE LET audio_profiles == ProfilesOfType(mprofile, "audio")
            IN /\ profiles' = audio_profiles
               /\ of_profile' = mprofile
               /\ of_type' = "audio"
               /\ restriction' = SetRestrictions(audio_profiles, restriction,
                                    "audio/x-raw", {<<"rate", rate>>})
               /\ UNCHANGED out
    /\ ppc' = "rated"
    /\ UNCHANGED <<nprofiles, ptype, parent, presence, avail, usable_profiles,
                   mprofile, size, rate, caller, opt_cpu, mpc, res, run_err,
                   evars, dvars>>

\* What --size and --audio-rate can leave in main's size and rate.
SizeInputs ==
    { NoValue,
      <<>>,
      <<"2", "x", "1">>,
      <<"0", "1", "0", "X", "1", "0">>,
      <<"x", "1">>,
      <<"a", "x", "b">>,
      <<"2", "1">>,
      <<"1", "x", "2", "x", "1">> }

RateInputs == {-1, 0, 44100}

\* main's own locals while no profile has been created.
OverridesUnused ==
    /\ mprofile = 0
    /\ size = NoValue
    /\ rate = -1

\* The restrictions a deserialized profile of type ty can carry.
Restrictions(ty) ==
    CASE ty = "video" ->
            {NoCaps, [media |-> "video/x-raw",
                      fields |-> {<<"width", 320>>, <<"height", 240>>}]}
      [] ty = "audio" ->
            {NoCaps, [media |-> "audio/x-raw", fields |-> {<<"rate", 8000>>}]}
      [] OTHER -> {NoCaps}

\* ------------------------------------------------------------ engine bounds

\* Events the engine hands to the dispatcher during one run.
MaxEvents == 4
\* Elementary streams of the source.
MaxStreams == 2

\* ------------------------------------------------------------ dispatcher

NoDetail == 0

Event(kind, arg) == [kind |-> kind, arg |-> arg]

\* position_updated_cb (lines 59-79): a line is printed only for a known
\* position and a known, non-zero duration.
position_updated_cb(pos) ==
    IF pos # -1 /\ duration > 0 /\ duration # -1
    THEN <<<<"position", "">>>>
    ELSE <<>>

\* _warning_cb that ignores the structured detail.
warning_cb_generic(details) == <<<<"got_warning", "">>>>

\* _warning_cb (lines 203-221): details holding both can-t-encode-stream and
\* stream-caps (here: the stream) are printed with the stream's format; a
\* warning without them (NoDetail) is printed with its message.
warning_cb(details) ==
    IF details # NoDetail
    THEN <<<<"cant_encode", ToString(details)>>>>
    ELSE <<<<"got_warning", "">>>>

\* The handlers main connected (lines 306-308; the older main connects
\* position-updated only, lines 182-183), run by the thunk of event e.
Callbacks(e) ==
    IF caller \notin {"cli", "cli_old"} THEN <<>>
    ELSE IF e.kind = "PositionUpdated" THEN position_updated_cb(e.arg)
    ELSE IF e.kind = "Warning" /\ caller = "cli" THEN warning_cb(e.arg)
    ELSE <<>>

\* dispatch that releases what the event captured as soon as the thunk is
\* enqueued, before the target context has run it.
DispatchCleanupFirst(e) ==
    LET id == Len(ev) + 1
    IN /\ ev' = Append(ev, e)
       /\ IF disp = "immediate"
          THEN /\ thunk_runs' = Append(thunk_runs, 1)
               /\ cleanup_runs' = Append(cleanup_runs, 1)
               /\ delivered' = Append(delivered, id)
               /\ out' = out \o Callbacks(e)
               /\ UNCHANGED <<queue, lost>>
          ELSE /\ thunk_runs' = Append(thunk_runs, 0)
               /\ cleanup_runs' = Append(cleanup_runs, 1)
               /\ IF ctx_alive
                  THEN queue' = Append(queue, id) /\ UNCHANGED lost
                  ELSE lost' = lost \cup {id} /\ UNCHANGED queue
               /\ UNCHANGED <<delivered, out>>

\* dispatch(thunk, on_done_cleanup) for the thunk delivering event e.
\* Immediate: the thunk runs on the producer's thread, then the cleanup.
\* Event loop: the thunk is enqueued on the target context; on a context that
\* was torn down, dispatch is a no-op.
Dispatch(e) ==
    LET id == Len(ev) + 1
    IN /\ ev' = Append(ev, e)
       /\ IF disp = "immediate"
          THEN /\ thunk_runs' = Append(thunk_runs, 1)
               /\ cleanup_runs' = Append(cleanup_runs, 1)
               /\ delivered' = Append(delivered, id)
               /\ out' = out \o Callbacks(e)
               /\ UNCHANGED <<queue, lost>>
          ELSE /\ thunk_runs' = Append(thunk_runs, 0)
               /\ cleanup_runs' = Append(cleanup_runs, 0)
               /\ IF ctx_alive
                  THEN queue' = Append(queue, id) /\ UNCHANGED lost
                  ELSE lost' = lost \cup {id} /\ UNCHANGED queue
               /\ UNCHANGED <<delivered, out>>

\* The target context runs the oldest enqueued thunk.
LoopRunThunk ==
    /\ disp = "loop" /\ ctx_alive /\ inflight = 0 /\ queue # <<>>
    /\ LET id == Head(queue)
       IN /\ thunk_runs' = [thunk_runs EXCEPT ![id] = @ + 1]
          /\ delivered' = Append(delivered, id)
          /\ out' = out \o Callbacks(ev[id])
          /\ inflight' = id
    /\ queue' = Tail(queue)
    /\ UNCHANGED <<caller, opt_cpu, mpc, res, run_err, disp, ctx_alive, ev,
                   cleanup_runs, lost, dropped, evars, pvars>>

\* on_done_cleanup of the thunk that has just run.
LoopCleanup ==
    /\ inflight # 0
    /\ cleanup_runs' = [cleanup_runs EXCEPT ![inflight] = @ + 1]
    /\ inflight' = 0
    /\ UNCHANGED <<cvars, disp, ctx_alive, queue, ev, thunk_runs, lost,
                   dropped, delivered, evars, pvars>>

\* The caller tears its execution context down: what is still enqueued on
\* it never runs.
CtxTeardown ==
    /\ caller = "api" /\ disp = "loop" /\ ctx_alive /\ inflight = 0
    /\ ctx_alive' = FALSE
    /\ dropped' = dropped \cup {queue[i] : i \in 1..Len(queue)}
    /\ queue' = <<>>
    /\ UNCHANGED <<cvars, disp, inflight, ev, thunk_runs, cleanup_runs, lost,
                   delivered, evars, pvars>>

\* ------------------------------------------------------------ engine

CpuInputs == {-1, 0, 50, 100, 150}

\* set_cpu_usage(percent): a value outside 0..100 is rejected with a
\* configuration error and the target keeps its value.
SetCpuUsage(percent) ==
    /\ IF percent >= 0 /\ percent <= 100
       THEN cpu_usage' = percent /\ cfg_result' = "ok"
       ELSE cpu_usage' = cpu_usage /\ cfg_result' = "ConfigurationError"

\* The engine's own steps run on the caller's thread during run, and on the
\* background context after run_async, until destruction begins.
EngineActive ==
    /\ mode # "none"
    /\ ~quit
    /\ ~bg_busy
    /\ mode = "async" => bg

EngineRest == <<mode, cpu_usage, cfg_result, bg, bg_busy,
                quit, destroyed, nstreams, encodable>>

CallerRest == <<caller, opt_cpu, mpc, res, run_err>>

DispRest == <<disp, ctx_alive, inflight, dropped>>

\* Building -> Running: the graph is built; the duration may be known.
EngineBuildOk ==
    /\ EngineActive /\ state = "Building"
    /\ state' = "Running"
    /\ graph' = graph + 1
    /\ duration' \in {-1, 1}
    /\ UNCHANGED <<last_error, position, reported, EngineRest,
                   CallerRest, out, dvars, pvars>>

\* Building -> Failed: the profile is unrealizable, the source unreachable or
\* the destination unwritable.
EngineBuildFail ==
    /\ EngineActive /\ state = "Building"
    /\ state' = "Failed"
    /\ last_error' = "ConfigurationError"
    /\ Dispatch(Event("Failed", NoDetail))
    /\ UNCHANGED <<graph, position, duration, reported, EngineRest,
                   CallerRest, DispRest, pvars>>

\* The events a run may still emit beyond those it owes: one Warning for
\* each stream that cannot be encoded and the terminal event.
Budget ==
    MaxEvents - Len(ev) - Cardinality((1..nstreams) \ (encodable \cup reported)) - 1

\* The position timer samples the position.
TickSample ==
    /\ EngineActive /\ state = "Running"
    /\ Budget > 0
    /\ position' = position + 1
    /\ bg_busy' = TRUE
    /\ UNCHANGED <<state, graph, mode, cpu_usage, cfg_result,
                   bg, quit, destroyed, last_error, duration, nstreams,
                   encodable, reported, cvars, dvars, pvars>>

\* and emits PositionUpdated through the dispatcher.
TickDispatch ==
    /\ bg_busy
    /\ bg_busy' = FALSE
    /\ Dispatch(Event("PositionUpdated", position))
    /\ UNCHANGED <<state, graph, mode, cpu_usage, cfg_result,
                   bg, quit, destroyed, last_error, position, duration,
                   nstreams, encodable, reported, CallerRest, DispRest,
                   pvars>>

\* A stream that cannot be encoded into the requested format is reported as
\* a Warning carrying the stream's format; processing continues.
StreamNotEncodable ==
    /\ EngineActive /\ state = "Running"
    /\ \E s \in (1..nstreams) \ (encodable \cup reported) :
        /\ reported' = reported \cup {s}
        /\ Dispatch(Event("Warning", s))
    /\ UNCHANGED <<state, graph, last_error, position, duration,
                   EngineRest, CallerRest, DispRest, pvars>>

\* No stream remains processable: Running -> Failed.
NoStreamLeft ==
    /\ EngineActive /\ state = "Running"
    /\ encodable = {} /\ reported = 1..nstreams
    /\ state' = "Failed"
    /\ last_error' = "NoProcessableStream"
    /\ Dispatch(Event("Failed", NoDetail))
    /\ UNCHANGED <<graph, position, duration, reported, EngineRest,
                   CallerRest, DispRest, pvars>>

\* Any other non-fatal issue is a Warning without structured detail.
GenericWarning ==
    /\ EngineActive /\ state = "Running"
    /\ Budget > 0
    /\ Dispatch(Event("Warning", NoDetail))
    /\ UNCHANGED <<state, graph, last_error, position, duration, reported,
                   EngineRest, CallerRest, DispRest, pvars>>

\* End of stream for all required streams: Running -> Completed.
EngineEos ==
    /\ EngineActive /\ state = "Running"
    /\ encodable # {} /\ encodable \cup reported = 1..nstreams
    /\ state' = "Completed"
    /\ Dispatch(Event("Completed", NoDetail))
    /\ UNCHANGED <<graph, last_error, position, duration, reported,
                   EngineRest, CallerRest, DispRest, pvars>>

\* The graph reports a fatal error: Running -> Failed.
EngineError ==
    /\ EngineActive /\ state = "Running"
    /\ state' = "Failed"
    /\ last_error' = "RuntimeFailure"
    /\ Dispatch(Event("Failed", NoDetail))
    /\ UNCHANGED <<graph, position, duration, reported, EngineRest,
                   CallerRest, DispRest, pvars>>

\* Close that leaves the finished graph alive and makes the engine runnable
\* again.
EngineCloseReuse ==
    /\ EngineActive /\ state \in {"Completed", "Failed"}
    /\ state' = "Idle"
    /\ UNCHANGED <<graph, bg, mode, cpu_usage, cfg_result,
                   bg_busy, quit, destroyed, last_error, position, duration,
                   nstreams, encodable, reported, cvars, dvars, pvars>>

\* Completed | Failed -> Closed: all resources are released.
EngineClose ==
    /\ EngineActive /\ state \in {"Completed", "Failed"}
    /\ state' = "Closed"
    /\ graph' = 0
    /\ bg' = FALSE
    /\ UNCHANGED <<mode, cpu_usage, cfg_result, bg_busy, quit,
                   destroyed, last_error, position, duration, nstreams,
                   encodable, reported, cvars, dvars, pvars>>

\* ------------------------------------------------------------ callers

\* The outcomes of main up to the construction of the transcoder (lines
\* 258-297): an option parse error, --list-targets, a wrong argument count,
\* no extension to guess the format from, no profile found, or success.
ArgOutcomes == {"parse_error", "list", "usage", "no_extension", "no_profile", "ok"}

MainArgs ==
    /\ caller \in {"cli", "cli_old"} /\ mpc = "start"
    /\ \E outcome \in ArgOutcomes :
        CASE outcome = "parse_error" ->
                /\ out' = Append(out, <<"error_initializing", "">>)
                /\ res' = 1 /\ mpc' = "exited"
          [] outcome = "list" ->
                /\ out' = Append(out, <<"targets", "">>)
                /\ res' = 0 /\ mpc' = "exited"
          [] outcome = "usage" ->
                /\ out' = Append(out, <<"help", "">>)
                /\ res' = -1 /\ mpc' = "exited"
          [] outcome = "no_extension" ->
                /\ out' = Append(out, <<"error", "no_extension">>)
                /\ res' = 1 /\ mpc' = "exited"
          [] outcome = "no_profile" ->
                /\ out' = out \o <<<<"error", "no_format">>, <<"warn", "list_hint">>>>
                /\ res' = 1 /\ mpc' = "exited"
          [] outcome = "ok" ->
                /\ mpc' = "created"
                /\ UNCHANGED <<out, res>>
    /\ UNCHANGED <<caller, opt_cpu, run_err, evars, dvars, pvars>>

\* main that starts the run without handing --cpu-usage to the engine.
MainStartNoCpu ==
    /\ caller \in {"cli", "cli_old"} /\ mpc = "created"
    /\ out' = Append(out, <<"ok", "starting">>)
    /\ state' = "Building"
    /\ mode' = "sync"
    /\ mpc' = "running"
    /\ UNCHANGED <<caller, opt_cpu, res, run_err, graph, bg, bg_busy, quit,
                   destroyed, last_error, position, duration, nstreams,
                   encodable, reported, cpu_usage, cfg_result,
                   dvars, pvars>>

\* main, lines 302-313 (181-188 of the older main): the CPU usage is handed
\* to the engine, the handlers are connected, and gst_transcoder_run starts.
MainStart ==
    /\ caller \in {"cli", "cli_old"} /\ mpc = "created"
    /\ SetCpuUsage(opt_cpu)
    /\ out' = Append(out, <<"ok", "starting">>)
    /\ state' = "Building"
    /\ mode' = "sync"
    /\ mpc' = "running"
    /\ UNCHANGED <<caller, opt_cpu, res, run_err, graph, bg, bg_busy, quit,
                   destroyed, last_error, position, duration, nstreams,
                   encodable, reported, dvars, pvars>>

\* main, lines 313-322 (188-197): gst_transcoder_run has returned; the
\* outcome is printed and res is returned.
MainReport ==
    /\ caller \in {"cli", "cli_old"} /\ mpc = "running"
    /\ state \in {"Completed", "Failed", "Closed"}
    /\ run_err' = last_error
    /\ out' = Append(out, IF last_error # "none"
                          THEN <<"error", "FAILURE">>
                          ELSE <<"ok", "DONE">>)
    /\ mpc' = "exited"
    /\ UNCHANGED <<caller, opt_cpu, res, evars, dvars, pvars>>

\* run_async: the engine spawns its background context and returns.
ApiRunAsync ==
    /\ caller = "api" /\ ~quit
    /\ state = "Idle" /\ mode = "none"
    /\ state' = "Building"
    /\ mode' = "async"
    /\ bg' = TRUE
    /\ UNCHANGED <<graph, cpu_usage, cfg_result, bg_busy, quit,
                   destroyed, last_error, position, duration, nstreams,
                   encodable, reported, cvars, dvars, pvars>>

\* Destruction begins: the background context is asked to stop.
ApiDestroyBegin ==
    /\ caller = "api" /\ ~quit
    /\ quit' = TRUE
    /\ UNCHANGED <<state, graph, mode, cpu_usage, cfg_result,
                   bg, bg_busy, destroyed, last_error, position, duration,
                   nstreams, encodable, reported, cvars, dvars, pvars>>

\* Destruction that returns without waiting for the callback the background
\* context is in.
ApiDestroyNoJoin ==
    /\ quit /\ ~destroyed
    /\ destroyed' = TRUE
    /\ bg' = FALSE
    /\ graph' = 0
    /\ UNCHANGED <<state, mode, cpu_usage, cfg_result, bg_busy,
                   quit, last_error, position, duration, nstreams, encodable,
                   reported, cvars, dvars, pvars>>

\* Destruction returns once the background context has finished the callback
\* it was in: the context and the graph are torn down.
ApiDestroyReturn ==
    /\ quit /\ ~destroyed /\ ~bg_busy
    /\ destroyed' = TRUE
    /\ bg' = FALSE
    /\ graph' = 0
    /\ UNCHANGED <<state, mode, cpu_usage, cfg_result, bg_busy,
                   quit, last_error, position, duration, nstreams, encodable,
                   reported, cvars, dvars, pvars>>

\* ------------------------------------------------------------ specification

\* No profile call is in progress.
ProfilesIdle ==
    /\ nprofiles = 0
    /\ ptype = <<>>
    /\ parent = <<>>
    /\ presence = <<>>
    /\ avail = {}
    /\ usable_profiles = <<>>
    /\ profiles = <<>>
    /\ of_profile = 0
    /\ of_type = "none"
    /\ restriction = <<>>
    /\ OverridesUnused
    /\ ppc = "none"

\* A constructed engine: Idle, CPU usage 100, no graph, nothing dispatched.
EngineFresh ==
    /\ state = "Idle"
    /\ graph = 0
    /\ mode = "none"
    /\ cpu_usage = 100
    /\ cfg_result = "none"
    /\ bg = FALSE
    /\ bg_busy = FALSE
    /\ quit = FALSE
    /\ destroyed = FALSE
    /\ last_error = "none"
    /\ position = 0
    /\ duration = -1
    /\ reported = {}
    /\ ctx_alive = TRUE
    /\ queue = <<>>
    /\ inflight = 0
    /\ ev = <<>>
    /\ thunk_runs = <<>>
    /\ cleanup_runs = <<>>
    /\ lost = {}
    /\ dropped = {}
    /\ delivered = <<>>
    /\ out = <<>>
    /\ res = 0
    /\ run_err = "none"

\* No engine is in use while the profile helpers are exercised.
EngineUnused ==
    /\ EngineFresh
    /\ caller = "none"
    /\ opt_cpu = 100
    /\ mpc = "none"
    /\ disp = "immediate"
    /\ nstreams = 0
    /\ encodable = {}

\* main of either tool with its parsed --cpu-usage, on a source of one or
\* more streams; the transcoder is created with the default dispatcher.
Init ==
    /\ ProfilesIdle
    /\ EngineFresh
    /\ caller \in {"cli", "cli_old"}
    /\ opt_cpu \in CpuInputs
    /\ mpc = "start"
    /\ disp = "immediate"
    /\ nstreams \in 1..MaxStreams
    /\ encodable \in SUBSET (1..nstreams)

\* A library client with either dispatcher.
InitApi ==
    /\ ProfilesIdle
    /\ EngineFresh
    /\ caller = "api"
    /\ opt_cpu = 100
    /\ mpc = "start"
    /\ disp \in {"immediate", "loop"}
    /\ nstreams \in 1..MaxStreams
    /\ encodable \in SUBSET (1..nstreams)

EngineNext ==
    \/ EngineBuildOk
    \/ EngineBuildFail
    \/ TickSample
    \/ TickDispatch
    \/ StreamNotEncodable
    \/ NoStreamLeft
    \/ GenericWarning
    \/ EngineEos
    \/ EngineError
    \/ EngineClose

Next ==
    \/ MainArgs
    \/ MainStart
    \/ MainReport
    \/ EngineNext

NextApi ==
    \/ ApiRunAsync
    \/ ApiDestroyBegin
    \/ ApiDestroyReturn
    \/ EngineNext
    \/ LoopRunThunk
    \/ LoopCleanup
    \/ CtxTeardown

Spec == Init /\ [][Next]_vars

SpecApi == InitApi /\ [][NextApi]_vars

\* ---- the inputs

\* A target as gst_encoding_list_all_targets hands it to get_usable_profiles.
InitUsable ==
    /\ nprofiles \in 1..MaxProfiles
    /\ ptype \in [1..nprofiles -> ProfileTypes]
    /\ parent \in ParentMaps(nprofiles)
    /\ WellFormed(nprofiles, ptype, parent)
    /\ presence \in [1..nprofiles -> {0, MaxPresence}]
    /\ avail \in SUBSET (1..nprofiles)
    /\ usable_profiles = <<>>
    /\ profiles = <<>>
    /\ of_profile = 0
    /\ of_type = "none"
    /\ restriction = [i \in 1..nprofiles |-> NoCaps]
    /\ OverridesUnused
    /\ ppc = "target"
    /\ EngineUnused

\* A profile tree whose kinds are asked for.
InitKinds ==
    /\ nprofiles \in 1..MaxKindProfiles
    /\ ptype \in [1..nprofiles -> ProfileTypes]
    /\ parent \in ParentMaps(nprofiles)
    /\ WellFormed(nprofiles, ptype, parent)
    /\ presence = [i \in 1..nprofiles |-> 0]
    /\ avail = {}
    /\ usable_profiles = <<>>
    /\ profiles = <<>>
    /\ of_profile = 0
    /\ of_type = "none"
    /\ restriction = [i \in 1..nprofiles |-> NoCaps]
    /\ OverridesUnused
    /\ ppc = "tree"
    /\ EngineUnused

\* main after create_encoding_profile (line 291): profile 1 is the profile
\* it returned, every other profile is owned by it or by a child of it.
InitOverrides ==
    /\ nprofiles \in 1..MaxOverrideProfiles
    /\ ptype \in [1..nprofiles -> ProfileTypes]
    /\ parent \in ParentMaps(nprofiles)
    /\ WellFormed(nprofiles, ptype, parent)
    /\ \A i \in 1..nprofiles : parent[i] = 0 <=> i = 1
    /\ presence = [i \in 1..nprofiles |-> 0]
    /\ avail = {}
    /\ usable_profiles = <<>>
    /\ profiles = <<>>
    /\ of_profile = 0
    /\ of_type = "none"
    /\ restriction \in [1..nprofiles -> UNION {Restrictions(ty) : ty \in ProfileTypes}]
    /\ \A i \in 1..nprofiles : restriction[i] \in Restrictions(ptype[i])
    /\ mprofile = 1
    /\ size \in SizeInputs
    /\ rate \in RateInputs
    /\ ppc = "created"
    /\ EngineUnused

NextUsable == get_usable_profiles

NextKinds == get_profiles_of_type

SpecUsable == InitUsable /\ [][NextUsable]_vars

NextOverrides ==
    \/ set_video_size
    \/ set_audio_rate

SpecKinds == InitKinds /\ [][NextKinds]_vars

SpecOverrides == InitOverrides /\ [][NextOverrides]_vars

\* ------------------------------------------------------------ claims

Candidates == {i \in Ids : parent[i] = 0}

NoDuplicates(s) == \A i, j \in 1..Len(s) : s[i] = s[j] => i = j

\* C1: after get_usable_profiles, a profile is in the returned list if and only
\* if it is a candidate of the target whose trial encode graph holds at least
\* one stage; the list holds no profile twice.
C1_UsableIsFilter ==
    ppc = "listed" =>
        /\ \A p \in Ids :
            p \in Range(usable_profiles)
                <=> (p \in Candidates /\ TrialStages(p, presence) # {})
        /\ NoDuplicates(usable_profiles)

\* A target with a candidate that is listed and one whose trial build failed.
C1_Witness ==
    /\ ppc = "listed"
    /\ \E p, q \in Candidates :
        /\ p \in Range(usable_profiles)
        /\ q \notin Range(usable_profiles)
        /\ TrialStages(q, presence) = {}

\* C2: after get_usable_profiles, presence is 1 on every candidate and on every
\* descendant of it, at every depth.
C2_PresenceOnAllDescendants ==
    ppc = "listed" =>
        \A c \in Candidates :
            /\ presence[c] = 1
            /\ \A d \in Descendants(c) : presence[d] = 1

\* C3: a container candidate all of whose children are unusable is not in the
\* list get_usable_profiles returns.
C3_ContainerWithoutUsableChildExcluded ==
    ppc = "listed" =>
        \A c \in Candidates :
            (/\ ptype[c] = "container"
             /\ \A k \in Range(ChildrenOf(c)) : TrialStages(k, presence) = {})
                => c \notin Range(usable_profiles)

\* The direct children of c whose type is K, in the order of c's children.
KindChildren(c, K) == SelectSeq(ChildrenOf(c), LAMBDA i : ptype[i] = K)

\* C4 as stated: for a container, get_profiles_of_type returns the direct
\* children of the asked type in the order in which they appear among the
\* container's children.
C4_KindChildrenInOrder ==
    (of_profile # 0 /\ ptype[of_profile] = "container") =>
        profiles = KindChildren(of_profile, of_type)

\* C4 as amended: for a container, get_profiles_of_type returns exactly the
\* direct children of the asked type, each once, in the reverse of the order
\* in which they appear among the container's children.
C4_KindChildrenReversed ==
    (of_profile # 0 /\ ptype[of_profile] = "container") =>
        profiles = Reverse(KindChildren(of_profile, of_type))

\* A container with two children of the asked type around a child of another
\* type, one of them a container holding a grandchild of the asked type.
C4_Witness ==
    /\ of_profile # 0
    /\ ptype[of_profile] = "container"
    /\ Len(profiles) = 2
    /\ \E k \in Range(ChildrenOf(of_profile)) : ptype[k] # of_type
    /\ \E g \in Ids : /\ ptype[g] = of_type
                      /\ parent[g] # 0
                      /\ parent[g] # of_profile
                      /\ g \in Descendants(of_profile)

\* ---- engine claims

InRange(percent) == percent >= 0 /\ percent <= 100

\* C5: set_cpu_usage rejects a value outside 0..100 with a configuration error
\* and leaves the CPU-usage target at its value, and accepts every value of
\* 0..100; main hands --cpu-usage to the engine before run, so that a started
\* engine never holds an out-of-range target.
C5_CpuUsageChecked ==
    /\ InRange(cpu_usage)
    /\ state = "Idle" => (cpu_usage = 100 /\ cfg_result = "none")
    /\ state # "Idle" =>
        IF InRange(opt_cpu)
        THEN cpu_usage = opt_cpu /\ cfg_result = "ok"
        ELSE cpu_usage = 100 /\ cfg_result = "ConfigurationError"

\* main was given --cpu-usage 150 and the engine runs with its target at 100.
C5_Witness ==
    /\ state = "Running"
    /\ opt_cpu = 150
    /\ cpu_usage = 100
    /\ cfg_result = "ConfigurationError"

Transitions ==
    {<<"Idle", "Building">>, <<"Building", "Running">>, <<"Building", "Failed">>,
     <<"Running", "Completed">>, <<"Running", "Failed">>,
     <<"Completed", "Closed">>, <<"Failed", "Closed">>}

\* C6: the engine's state moves only along Idle -> Building -> Running ->
\* (Completed | Failed) -> Closed, and Building -> Failed; at most one
\* processing graph is alive, and none in Idle and Closed.
C6_StateMachine ==
    /\ [](graph <= 1 /\ (state \in {"Idle", "Closed"} => graph = 0))
    /\ [][state' # state => <<state, state'>> \in Transitions]_vars

\* An engine that ran, completed and was closed.
C6_Witness ==
    /\ state = "Closed"
    /\ last_error = "none"
    /\ position > 0
    /\ graph = 0

Pending(id) == id = inflight \/ \E i \in 1..Len(queue) : queue[i] = id

\* C7 as stated: for every call of dispatch, the cleanup runs exactly once and
\* only after the thunk: once a dispatched event is no longer waiting on its
\* context, its cleanup has run once.
C7_CleanupExactlyOnce ==
    \A id \in 1..Len(ev) :
        /\ cleanup_runs[id] <= thunk_runs[id]
        /\ cleanup_runs[id] <= 1
        /\ ~Pending(id) => cleanup_runs[id] = 1

\* C7 as amended: the cleanup never runs before its thunk nor more than once;
\* it has run exactly once for every dispatch of the immediate dispatcher and
\* for every event whose thunk the target context has finished; an event
\* dispatched on a torn-down context, or still enqueued when the context is
\* torn down, has neither its thunk nor its cleanup run.
C7_CleanupAfterThunk ==
    \A id \in 1..Len(ev) :
        /\ thunk_runs[id] <= 1
        /\ cleanup_runs[id] <= thunk_runs[id]
        /\ (thunk_runs[id] = 1 /\ id # inflight) => cleanup_runs[id] = 1
        /\ disp = "immediate" => cleanup_runs[id] = 1
        /\ id \in (lost \cup dropped) => (thunk_runs[id] = 0 /\ cleanup_runs[id] = 0)
        /\ id \in lost \/ id \in dropped \/ Pending(id) \/ cleanup_runs[id] = 1

\* One event was delivered and cleaned up, and a later one was dispatched
\* after the target context had been torn down.
C7_Witness ==
    /\ ~ctx_alive
    /\ \E i, j \in 1..Len(ev) :
        /\ i < j
        /\ cleanup_runs[i] = 1
        /\ j \in lost

C9_FailureExitsNonZero ==
    /\ (mpc = "exited" /\ run_err # "none") =>
            (out[Len(out)] = <<"error", "FAILURE">> /\ res # 0)
    /\ (mpc = "exited" /\ res = 0) => run_err = "none"

\* The Warning events carrying the detail of stream s.
DetailWarnings(s) ==
    {i \in 1..Len(ev) : ev[i].kind = "Warning" /\ ev[i].arg = s}

\* The lines _warning_cb printed for stream s.
CantEncodeLines(s) ==
    {i \in 1..Len(out) : out[i] = <<"cant_encode", ToString(s)>>}

C10_State ==
    /\ \A s \in 1..nstreams :
        /\ Cardinality(DetailWarnings(s)) = (IF s \in reported THEN 1 ELSE 0)
        /\ s \in reported => s \notin encodable
        /\ caller = "cli" => Cardinality(CantEncodeLines(s))
                                = Cardinality(DetailWarnings(s))
        /\ caller = "cli_old" => CantEncodeLines(s) = {}
    /\ state = "Completed" =>
        /\ encodable # {}
        /\ last_error = "none"
        /\ reported = (1..nstreams) \ encodable
    /\ (state = "Failed" /\ last_error = "NoProcessableStream") => encodable = {}
    /\ (state = "Running" /\ mpc = "running" /\ ~bg_busy /\ encodable # {}
            /\ reported = (1..nstreams) \ encodable) => ENABLED EngineEos
    /\ run_err \in {"none", "ConfigurationError", "RuntimeFailure",
                    "NoProcessableStream"}
    /\ (mpc = "exited" /\ last_error = "none") => run_err = "none"

C10_Step ==
    (Len(ev') > Len(ev) /\ ev'[Len(ev')].kind = "Warning") =>
        (state = "Running" /\ state' = "Running" /\ mpc' = mpc
            /\ last_error' = last_error /\ res' = res)

\* C10: a stream that cannot be encoded causes exactly one Warning carrying
\* the stream's format, printed by _warning_cb, and no state transition; the
\* engine completes when another stream is processable and fails for lack of
\* streams only when none is; the warning is no return value of run.
C10_WarningNotFailure == []C10_State /\ [][C10_Step]_vars

\* main of gst-transcoder.c printed the warning of a stream that cannot be
\* encoded, and the run completed with the other stream.
C10_Witness ==
    /\ caller = "cli"
    /\ mpc = "exited"
    /\ run_err = "none"
    /\ \E s \in reported : CantEncodeLines(s) # {}
    /\ encodable # {}

\* A size the check of line 118 accepts: two pieces around one "x" or "X".
WellFormedSize(value) ==
    /\ value # NoValue
    /\ Len(g_strsplit(Lowered(value))) = 2

\* The profiles of type K an override called on main's profile selects.
Selected(K) ==
    {p \in Range(ProfilesOfType(mprofile, K)) : ptype[p] = K}

\* The call of set_video_size.
C11_SizeStep ==
    (ppc = "created" /\ ppc' # "created") =>
        IF WellFormedSize(size)
        THEN LET vsize == g_strsplit(Lowered(size))
             IN /\ \A p \in Selected("video") :
                    {<<"width", g_ascii_strtoull(vsize[1], 0)>>,
                     <<"height", g_ascii_strtoull(vsize[2], 10)>>}
                        \subseteq restriction'[p].fields
                /\ \A p \in Ids :
                    ptype[p] = "audio" => restriction'[p] = restriction[p]
        ELSE restriction' = restriction

\* The call of set_audio_rate.
C11_RateStep ==
    (ppc = "sized" /\ ppc' # "sized") =>
        IF rate >= 0
        THEN /\ \A p \in Selected("audio") :
                    <<"rate", rate>> \in restriction'[p].fields
             /\ \A p \in Ids :
                    ptype[p] = "video" => restriction'[p] = restriction[p]
        ELSE restriction' = restriction

\* C11: whatever profile main holds (a container, a video leaf or an audio
\* leaf), set_audio_rate with a non-negative rate puts the rate in the
\* restriction of every audio leaf it selects and changes the restriction of
\* no video profile; set_video_size with a well-formed size puts the width
\* and height in the restriction of every video leaf it selects and changes
\* the restriction of no audio profile; a call with no value (size absent,
\* rate negative) or with a malformed size changes no restriction.
C11_OverridesOwnKind == [][C11_SizeStep /\ C11_RateStep]_vars

====
